---- MODULE Spec2Model ----
(***************************************************************************)
(* Session lifecycle and request pipeline of the go-nobitex client.        *)
(*                                                                         *)
(* The client code (package nobitex: NewClient, assertAuth,                *)
(* handleAutoRefresh, Request, ApiRequest, Authenticate) is the Go source  *)
(* that follows the markdown in src/README.md; the error normalizer is     *)
(* src/errors.go and the one-time-code provider is src/utils/otp.go.       *)
(*                                                                         *)
(* Time is counted in hours.  A *Client is shared by the goroutines in     *)
(* Procs; the code holds no lock, so every read and write of a Client      *)
(* field is a step of its own wherever another goroutine's write can fall  *)
(* between two of them.                                                    *)
(***************************************************************************)
EXTENDS Integers, Sequences, FiniteSets, TLC

VARIABLES
    c,        \* the Client struct (README.md:276-303)
    phase,    \* "new" before construction, "ready" once a *Client exists, "failed" when NewClient returned nil
    now,      \* the wall clock read by time.Now / time.Since, in hours
    pc,       \* per goroutine: the statement it is about to execute
    call,     \* per goroutine: the arguments, locals and return values of its current call
    wire,     \* per goroutine: the requests it handed to HttpClient.Do during its current call
    ncalls,   \* per goroutine: number of calls it has made on the client
    nticks,   \* number of clock advances
    norm,     \* a call of parseErrorResponse on its own: its arguments and its result
    limit     \* number of calls a goroutine makes in this run

vars == <<c, phase, now, pc, call, wire, ncalls, nticks, norm, limit>>

----------------------------------------------------------------------------
(* Bounds *)

\* calls made by one goroutine, and hours that pass
MaxCalls == 1
MaxTicks == 1

----------------------------------------------------------------------------
(* Program constants *)

\* ttl = 4 * time.Hour
TTLShort == 4
\* ttl = 30 * 24 * time.Hour
TTLLong == 720

Procs == {1, 2}

----------------------------------------------------------------------------
(* Values *)

\* A one-time code is <<text, t>>: the empty string, a code supplied by the
\* caller, or the code totp.GenerateCode derives from the secret at time t.
NoCode == <<"", 0>>
GivenCode == <<"123456", 0>>

\* the default base URL of the API
BaseUrl == "https://apiv2.nobitex.ir"

ValidSecret == "JBSWY3DPEHPK3PXP"
InvalidSecret == "not base32!"

\* error values: nil, an error of another package, and the three error types
NilErr == [type |-> "nil"]
Cause(what) == [type |-> "cause", Message |-> what]
GoNobitexError(msg, err) == [type |-> "GoNobitexError", Message |-> msg, Err |-> err]
RequestError(msg, op, err) ==
    [type |-> "RequestError", Message |-> msg, Operation |-> op, Err |-> err]

\* A decoded JSON value: its kind, its text (the string itself, or what
\* fmt.Sprintf("%v") prints for it), and its items when it is an array.
JString(s) == [t |-> "string", s |-> s, a |-> <<>>]
JNumber(text) == [t |-> "number", s |-> text, a |-> <<>>]
JNull == [t |-> "null", s |-> "<nil>", a |-> <<>>]
JObject(text) == [t |-> "object", s |-> text, a |-> <<>>]
JArray(items) == [t |-> "array", s |-> "", a |-> items]

\* A response body: bytes that are not JSON, JSON that is not an object, or
\* an object given by its keys and their values.
NotJSON == [valid |-> FALSE, object |-> FALSE, keys |-> <<>>, vals |-> <<>>]
JSONArrayBody == [valid |-> TRUE, object |-> FALSE, keys |-> <<>>, vals |-> <<>>]
ObjectBody(ks, vs) == [valid |-> TRUE, object |-> TRUE, keys |-> ks, vals |-> vs]

HasKey(body, k) == \E i \in 1..Len(body.keys) : body.keys[i] = k
\* a later duplicate of a key replaces the earlier one, as in encoding/json
Member(body, k) ==
    LET i == CHOOSE j \in 1..Len(body.keys) :
                 /\ body.keys[j] = k
                 /\ \A h \in (j+1)..Len(body.keys) : body.keys[h] # k
    IN  body.vals[i]

\* strings.EqualFold on the keys used here: encoding/json matches an object
\* key to a struct field by its tag, ignoring case
Fold(k) ==
    IF k \in {"Message", "MESSAGE"} THEN "message"
    ELSE IF k \in {"Code", "CODE"} THEN "code"
    ELSE IF k \in {"Status", "STATUS"} THEN "status"
    ELSE IF k \in {"Detail", "DETAIL"} THEN "detail"
    ELSE IF k \in {"Key", "KEY"} THEN "key"
    ELSE IF k \in {"Device", "DEVICE"} THEN "device"
    ELSE k

\* the members of the object that json.Unmarshal stores in the field tagged k
FieldMembers(body, k) ==
    {i \in 1..Len(body.keys) : Fold(body.keys[i]) = k /\ body.vals[i].t = "string"}

\* the string json.Unmarshal leaves in a string field tagged k of a struct:
\* each matching member that is a string is stored in turn, a null or a
\* value of another type leaves the field as it is
StringField(body, k) ==
    IF body.valid /\ body.object /\ FieldMembers(body, k) # {}
    THEN body.vals[CHOOSE i \in FieldMembers(body, k) :
                       \A j \in FieldMembers(body, k) : j <= i].s
    ELSE ""

\* whether json.Unmarshal into a struct whose tagged fields are all strings
\* (names: their tags) returns nil
UnmarshalOK(body, names) ==
    /\ body.valid
    /\ body.object
    /\ \A i \in 1..Len(body.keys) :
          Fold(body.keys[i]) \in names => body.vals[i].t \in {"string", "null"}

----------------------------------------------------------------------------
(* errors.go: the error normalizer *)

RECURSIVE SprintAll(_)
\* strs = append(strs, fmt.Sprintf("%v", item)) for each item
SprintAll(items) ==
    IF items = <<>> THEN <<>> ELSE <<Head(items).s>> \o SprintAll(Tail(items))

\* the []string recorded for one top-level value of the raw object
FieldStrings(v) ==
    IF v.t = "array" THEN SprintAll(v.a) ELSE <<v.s>>

\* a bug that leaves out of the raw object the keys the strict parse consumed
RawKeysUnconsumed(body) ==
    IF body.valid /\ body.object
    THEN {body.keys[i] : i \in 1..Len(body.keys)} \ {"status", "code", "message"}
    ELSE {}

\* the keys of raw after json.Unmarshal(respBody, &raw)
RawKeys(body) ==
    IF body.valid /\ body.object
    THEN {body.keys[i] : i \in 1..Len(body.keys)}
    ELSE {}

\* a bug that leaves the message empty when the body gives none
FallbackMessageEmpty(statusCode) == ""

\* fmt.Sprintf("API error (%d)", statusCode)
FallbackMessage(statusCode) == "API error (" \o ToString(statusCode) \o ")"

\* a bug that lets the detail replace the message of the body
ApiErrMessageDetailFirst(baseMessage, detail, statusCode) ==
    IF detail # "" THEN detail
    ELSE IF baseMessage # "" THEN baseMessage
    ELSE FallbackMessage(statusCode)

\* apiErr.Message after the three steps: the strictly parsed message, else
\* the detail of the raw object, else the fallback
ApiErrMessage(baseMessage, detail, statusCode) ==
    IF baseMessage # "" THEN baseMessage
    ELSE IF detail # "" THEN detail
    ELSE FallbackMessage(statusCode)

parseErrorResponse(statusCode, respBody) ==
    LET base == [Status  |-> StringField(respBody, "status"),
                 Code    |-> StringField(respBody, "code"),
                 Message |-> StringField(respBody, "message")]
        raw == RawKeys(respBody)
        strict == (IF base.Code # "" THEN {"code"} ELSE {})
                    \cup (IF base.Message # "" THEN {"message"} ELSE {})
        detail == IF "detail" \in raw /\ Member(respBody, "detail").t = "string"
                  THEN Member(respBody, "detail").s
                  ELSE ""
        message == ApiErrMessage(base.Message, detail, statusCode)
    IN  [type       |-> "APIError",
         Status     |-> base.Status,
         Code       |-> base.Code,
         Message    |-> message,
         Detail     |-> detail,
         StatusCode |-> statusCode,
         Fields     |-> [k \in raw \cup strict |->
                            IF k \in raw THEN FieldStrings(Member(respBody, k))
                            ELSE IF k = "code" THEN <<base.Code>>
                            ELSE <<base.Message>>],
         Err        |-> NilErr]

\* no call of parseErrorResponse on its own is under way
NoNorm == [statusCode |-> 0, respBody |-> NotJSON, apiErr |-> NilErr]

----------------------------------------------------------------------------
(* utils/otp.go *)

\* totp.GenerateCode fails on a secret that is not base32
GenerateOtpCode(otpSecret, t) ==
    IF otpSecret = InvalidSecret
    THEN [code |-> NoCode, err |-> Cause("could not generate otp code")]
    ELSE [code |-> <<"totp", t>>, err |-> NilErr]

----------------------------------------------------------------------------
(* The session lifecycle: pure parts *)

assertAuth(client) ==
    IF client.ApiKey = ""
    THEN GoNobitexError("access token is empty", NilErr)
    ELSE NilErr

KnownRemember == {"no", "", "yes"}

\* the switch on c.Remember in handleAutoRefresh
ttl(remember) ==
    IF remember \in {"no", ""} THEN TTLShort ELSE TTLLong

\* a bug that refreshes already when the TTL is reached
ExpiredAtLimit(client, t) == t - client.AuthTime >= ttl(client.Remember)

\* time.Since(c.AuthTime) > ttl
Expired(client, t) == t - client.AuthTime > ttl(client.Remember)

\* a bug that takes a client without a secret as having nothing to refresh
AutoRefreshCheckNoSecretFresh(client, t) ==
    IF client.OtpSecret = "" THEN "fresh"
    ELSE IF client.Remember \notin KnownRemember THEN "unknown remember"
    ELSE IF Expired(client, t) THEN "refresh"
    ELSE "fresh"

\* what handleAutoRefresh does before it generates a code: return an error,
\* return nil, or go on to refresh
AutoRefreshCheck(client, t) ==
    IF client.OtpSecret = "" THEN "no secret"
    ELSE IF client.Remember \notin KnownRemember THEN "unknown remember"
    ELSE IF Expired(client, t) THEN "refresh"
    ELSE "fresh"

AutoRefreshError(client, check) ==
    IF check = "no secret"
    THEN GoNobitexError("Otp secret is empty, can't refresh Api Key!", NilErr)
    ELSE GoNobitexError("unknown Remember value: " \o client.Remember, NilErr)

----------------------------------------------------------------------------
(* The server and the transport: what HttpClient.Do can produce *)

LoginBody(key) ==
    ObjectBody(<<"status", "key", "device">>,
               <<JString("success"), JString(key), JString("dev")>>)
EmptyObject == ObjectBody(<<>>, <<>>)
DetailBody == ObjectBody(<<"detail">>, <<JString("bad request")>>)
FailedBody ==
    ObjectBody(<<"status", "code", "message">>,
               <<JString("failed"), JString("X"), JString("Y")>>)

NoResp == [StatusCode |-> 0, body |-> NotJSON]
Response(status, body) == [StatusCode |-> status, body |-> body]

OkResponses ==
    {Response(200, b) : b \in {LoginBody("k1"), LoginBody("k2"), EmptyObject, NotJSON}}
ErrResponses ==
    {Response(401, DetailBody), Response(429, FailedBody), Response(500, NotJSON)}

\* Do returns an error, or the body cannot be read, or a response arrives
Failures ==
    {[k |-> "send failed", resp |-> NoResp],
     [k |-> "read failed", resp |-> Response(200, NotJSON)]}
Received(responses) == {[k |-> "response", resp |-> r] : r \in responses}

LoginOutcomes == Failures \cup Received(OkResponses \cup ErrResponses)
EndpointOutcomes ==
    Failures \cup Received({Response(200, EmptyObject), Response(200, NotJSON),
                            Response(401, DetailBody)})

----------------------------------------------------------------------------
(* Request, from HttpClient.Do to its return *)

\* the fields of the result destination, by the type decoded into
ResultFields(dst) ==
    IF dst = "AuthenticationResponse" THEN {"status", "key", "device"} ELSE {}

\* a bug that reports a failed read of the body as a failed send
RequestResultReadAsSend(outcome, dst) ==
    IF outcome.k \in {"send failed", "read failed"}
    THEN RequestError("failed to send request", "sending request", Cause("transport"))
    ELSE IF outcome.resp.StatusCode < 200 \/ outcome.resp.StatusCode >= 300
    THEN parseErrorResponse(outcome.resp.StatusCode, outcome.resp.body)
    ELSE IF dst # "" /\ ~UnmarshalOK(outcome.resp.body, ResultFields(dst))
    THEN RequestError("failed to unmarshal response", "parsing response", Cause("json"))
    ELSE NilErr

\* how Request can fail before it has a request to send: StructToURLParams,
\* json.Marshal or http.NewRequest returns an error
BuildFailures == {"params failed", "body failed", "create failed"}

\* the error Request returns then
BuildError(failure) ==
    IF failure = "params failed"
    THEN RequestError("failed to convert struct to URL params",
                      "preparing request parameters", Cause("params"))
    ELSE IF failure = "body failed"
    THEN RequestError("failed to marshal request body", "preparing request body",
                      Cause("marshal"))
    ELSE RequestError("failed to create request", "creating request", Cause("new request"))

\* a bug that decodes the body also when result is nil
RequestResultDecodesAlways(outcome, dst) ==
    IF outcome.k = "send failed"
    THEN RequestError("failed to send request", "sending request", Cause("transport"))
    ELSE IF outcome.k = "read failed"
    THEN RequestError("failed to read response body", "reading response", Cause("read"))
    ELSE IF outcome.resp.StatusCode < 200 \/ outcome.resp.StatusCode >= 300
    THEN parseErrorResponse(outcome.resp.StatusCode, outcome.resp.body)
    ELSE IF ~UnmarshalOK(outcome.resp.body, ResultFields(dst))
    THEN RequestError("failed to unmarshal response", "parsing response", Cause("json"))
    ELSE NilErr

\* the error Request returns for an outcome of Do; dst is "" for a nil result
RequestResult(outcome, dst) ==
    IF outcome.k = "send failed"
    THEN RequestError("failed to send request", "sending request", Cause("transport"))
    ELSE IF outcome.k = "read failed"
    THEN RequestError("failed to read response body", "reading response", Cause("read"))
    ELSE IF outcome.resp.StatusCode < 200 \/ outcome.resp.StatusCode >= 300
    THEN parseErrorResponse(outcome.resp.StatusCode, outcome.resp.body)
    ELSE IF dst # "" /\ ~UnmarshalOK(outcome.resp.body, ResultFields(dst))
    THEN RequestError("failed to unmarshal response", "parsing response", Cause("json"))
    ELSE NilErr

\* a bug that reports a rejected login under a message of its own
AuthenticateErrorWrapped(err) ==
    IF err.type = "APIError" /\ err.StatusCode = 401
    THEN GoNobitexError("invalid credentials", err)
    ELSE err

\* the switch on apiErr.StatusCode in Authenticate: every arm returns err
AuthenticateError(err) == err

\* a bug that rejects only a login with neither credential
CredentialsEmptyBoth(Username, Password) == Username = "" /\ Password = ""

\* the test at the entry of Authenticate
CredentialsEmpty(Username, Password) == Username = "" \/ Password = ""

\* a bug that stores the device identifier as the key
ResponseKeyDevice(body) == StringField(body, "device")

\* authResponse.Key after json.Unmarshal(respBody, &authResponse)
ResponseKey(body) == StringField(body, "key")

\* the request headers Request sets
NoHeaders ==
    [hasAuthorization |-> FALSE, Authorization |-> "", hasTOTP |-> FALSE,
     XTOTP |-> NoCode, UserAgent |-> ""]
\* a bug that sets X-TOTP inside "if auth"
HeadersTotpUnderAuth(client, auth, otpRequired) ==
    [hasAuthorization |-> auth,
     Authorization    |-> IF auth THEN "Token " \o client.ApiKey ELSE "",
     hasTOTP          |-> auth /\ otpRequired,
     XTOTP            |-> IF auth /\ otpRequired THEN client.OtpCode ELSE NoCode,
     UserAgent        |-> IF auth \/ otpRequired THEN "TraderBot/" \o client.UserAgent ELSE ""]

\* the headers Request sets after Content-Type
Headers(client, auth, otpRequired) ==
    [hasAuthorization |-> auth,
     Authorization    |-> IF auth THEN "Token " \o client.ApiKey ELSE "",
     hasTOTP          |-> otpRequired,
     XTOTP            |-> IF otpRequired THEN client.OtpCode ELSE NoCode,
     UserAgent        |-> IF auth \/ otpRequired THEN "TraderBot/" \o client.UserAgent ELSE ""]

NoLogin == [username |-> "", password |-> "", captcha |-> "", remember |-> ""]
\* reqBody of Authenticate
LoginRequestBody(client, Username, Password) ==
    [username |-> Username, password |-> Password, captcha |-> "api",
     remember |-> client.Remember]

\* a bug that tests the user agent nowhere
UserAgentEmptyNever(client) == FALSE

\* if c.UserAgent == "", under "if auth" and under "if otpRequired"
UserAgentEmpty(client) == client.UserAgent = ""

UserAgentError == GoNobitexError("UserAgent is empty! please set UserAgent", NilErr)

----------------------------------------------------------------------------
(* State *)

ZeroClient ==
    [Username |-> "", Password |-> "", OtpSecret |-> "", OtpCode |-> NoCode,
     Remember |-> "", UserAgent |-> "", AuthTime |-> 0, ApiKey |-> "",
     AutoRefresh |-> FALSE, BaseUrl |-> ""]

ZeroOpts ==
    [Username |-> "", Password |-> "", OtpSecret |-> "", OtpCode |-> NoCode,
     Remember |-> "", UserAgent |-> "", ApiKey |-> "",
     AutoAuth |-> FALSE, AutoRefresh |-> FALSE, BaseUrl |-> ""]

\* op          the call in progress: NewClient, Request (an endpoint call) or Authenticate
\* opts        the ClientOptions of NewClient
\* auth, otpRequired, hasResult   the arguments of the endpoint Request
\* Username, Password             the arguments of Authenticate
\* refreshing  Authenticate was called by handleAutoRefresh
\* checked, elapsed   handleAutoRefresh ran its test, and the time.Since it saw
\* key         authResponse.Key
\* io, resp    how the last HttpClient.Do ended, and the response received
\* authErr     the error Authenticate returned
\* err         the error the call returned
\* c0, t0      the client and the clock when the call started
\* pre         the (ApiKey, AuthTime) pair when Authenticate began to store its result
\* failed      how many earlier calls of this goroutine ended in a refresh whose login failed
ZeroCall ==
    [op |-> "none", opts |-> ZeroOpts, auth |-> FALSE, otpRequired |-> FALSE,
     hasResult |-> FALSE, Username |-> "", Password |-> "", refreshing |-> FALSE,
     checked |-> FALSE, elapsed |-> 0, key |-> "", io |-> "", resp |-> NoResp,
     authErr |-> NilErr, err |-> NilErr, c0 |-> ZeroClient, t0 |-> 0,
     pre |-> <<"", 0>>, failed |-> 0]

\* the count of failed refreshes, the call cl that has returned included
FailedRefreshes(cl) ==
    cl.failed + (IF cl.refreshing /\ cl.authErr # NilErr THEN 1 ELSE 0)

\* a request handed to HttpClient.Do
Wire(to, hdr, login) == [to |-> to, hdr |-> hdr, login |-> login]

Logins(w) == {i \in 1..Len(w) : w[i].to = "login"}
Endpoints(w) == {i \in 1..Len(w) : w[i].to = "endpoint"}

----------------------------------------------------------------------------
(* Returns *)

\* a bug that goes on to the endpoint request when the login of a refresh
\* has failed
ReturnUnlessRefreshing(p, e, cl) ==
    IF cl.op = "Request" /\ cl.refreshing /\ e # NilErr /\ pc[p] = "login_wait"
    THEN /\ pc' = [pc EXCEPT ![p] = "assert"]
         /\ call' = [call EXCEPT ![p] = cl]
         /\ UNCHANGED phase
    ELSE /\ pc' = [pc EXCEPT ![p] = "done"]
         /\ call' = [call EXCEPT ![p] = [cl EXCEPT !.err = e]]
         /\ phase' = IF cl.op = "NewClient"
                     THEN (IF e = NilErr THEN "ready" ELSE "failed")
                     ELSE phase

\* the call of p ends with error e (nil: success); NewClient returns a nil
\* client together with a non-nil error
Return(p, e, cl) ==
    /\ pc' = [pc EXCEPT ![p] = "done"]
    /\ call' = [call EXCEPT ![p] = [cl EXCEPT !.err = e]]
    /\ phase' = IF cl.op = "NewClient"
                THEN (IF e = NilErr THEN "ready" ELSE "failed")
                ELSE phase

\* handleAutoRefresh returned e to its caller, Request or NewClient
AfterRefreshError(cl, e) ==
    IF cl.op = "Request"
    THEN GoNobitexError("failed to refresh authentication", e)
    ELSE e

\* Authenticate returned e to its caller: handleAutoRefresh, NewClient, or the user
AfterAuthenticateError(cl, e) ==
    IF cl.refreshing
    THEN AfterRefreshError(cl,
            GoNobitexError("failed to refresh Api Key with Remember = '"
                               \o c.Remember \o "'", e))
    ELSE e

\* where the call goes on when handleAutoRefresh returns nil
AfterRefresh(p, cl) ==
    IF cl.op = "Request"
    THEN /\ pc' = [pc EXCEPT ![p] = "assert"]
         /\ call' = [call EXCEPT ![p] = cl]
         /\ UNCHANGED phase
    ELSE Return(p, NilErr, cl)

----------------------------------------------------------------------------
(* Construction *)

StartTime == TTLLong

OptionsSet ==
    [Username : {"", "user"}, Password : {"", "pass"},
     OtpSecret : {"", ValidSecret, InvalidSecret}, OtpCode : {NoCode, GivenCode},
     Remember : {"", "no", "yes", "maybe"}, UserAgent : {"", "Bot/1.0"},
     ApiKey : {"", "k0"}, AutoAuth : BOOLEAN, AutoRefresh : BOOLEAN, BaseUrl : {""}]

\* clients built as a struct literal: every field of Client is exported
LiteralSet ==
    [Username : {"", "user"}, Password : {"pass"},
     OtpSecret : {"", ValidSecret, InvalidSecret}, OtpCode : {GivenCode},
     Remember : {"", "no", "yes", "maybe"}, UserAgent : {"", "Bot/1.0"},
     AuthTime : {StartTime - TTLLong, StartTime - TTLShort, StartTime},
     ApiKey : {"", "k0"}, AutoRefresh : BOOLEAN, BaseUrl : {BaseUrl}]

\* NewClient up to its call of Authenticate, or up to client.AuthTime = time.Now()
NewClient(p, opts) ==
    /\ phase = "new"
    /\ pc[p] = "idle"
    /\ LET base == [ZeroClient EXCEPT !.AutoRefresh = opts.AutoRefresh,
                                      !.BaseUrl = IF opts.BaseUrl # "" THEN opts.BaseUrl
                                                  ELSE BaseUrl,
                                      !.Remember = opts.Remember,
                                      !.UserAgent = opts.UserAgent,
                                      !.Username = opts.Username,
                                      !.Password = opts.Password]
           gen == GenerateOtpCode(opts.OtpSecret, now)
           withSecret == IF opts.OtpSecret # ""
                         THEN [base EXCEPT !.OtpSecret = opts.OtpSecret,
                                           !.OtpCode = gen.code]
                         ELSE base
           withCode == IF opts.OtpCode # NoCode
                       THEN [withSecret EXCEPT !.OtpCode = opts.OtpCode]
                       ELSE withSecret
           cl == [ZeroCall EXCEPT !.op = "NewClient", !.opts = opts,
                                  !.Username = opts.Username,
                                  !.Password = opts.Password,
                                  !.c0 = ZeroClient, !.t0 = now]
       IN  IF /\ opts.ApiKey = ""
              /\ opts.Username # ""
              /\ opts.Password # ""
              /\ (opts.OtpCode # NoCode \/ opts.OtpSecret # "")
           THEN IF opts.OtpSecret # "" /\ gen.err # NilErr
                THEN /\ c' = [base EXCEPT !.OtpSecret = opts.OtpSecret]
                     /\ Return(p, gen.err, cl)
                ELSE /\ c' = withCode
                     /\ pc' = [pc EXCEPT ![p] = "auth"]
                     /\ call' = [call EXCEPT ![p] = cl]
                     /\ UNCHANGED phase
           ELSE /\ c' = [base EXCEPT !.ApiKey = opts.ApiKey]
                /\ pc' = [pc EXCEPT ![p] = "nc_finish"]
                /\ call' = [call EXCEPT ![p] = cl]
                /\ UNCHANGED phase
    /\ wire' = [wire EXCEPT ![p] = <<>>]
    /\ UNCHANGED <<now, ncalls, nticks, norm, limit>>

\* client.AuthTime = time.Now(), then the call of handleAutoRefresh
NewClientFinish(p) ==
    /\ pc[p] = "nc_finish"
    /\ c' = [c EXCEPT !.AuthTime = now]
    /\ pc' = [pc EXCEPT ![p] = "har"]
    /\ UNCHANGED <<phase, now, call, wire, ncalls, nticks, norm, limit>>

\* &Client{...}
ClientLiteral(p, lit) ==
    /\ phase = "new"
    /\ pc[p] = "idle"
    /\ c' = lit
    /\ phase' = "ready"
    /\ UNCHANGED <<now, pc, call, wire, ncalls, nticks, norm, limit>>

----------------------------------------------------------------------------
(* handleAutoRefresh *)

\* a bug that stops refreshing once a refresh has failed
HandleAutoRefreshGivesUp(p) ==
    /\ pc[p] = "har"
    /\ LET check == IF call[p].failed > 0 THEN "fresh" ELSE AutoRefreshCheck(c, now)
           cl == [call[p] EXCEPT !.checked = TRUE, !.elapsed = now - c.AuthTime]
       IN  IF check \in {"no secret", "unknown remember"}
           THEN Return(p, AfterRefreshError(cl, AutoRefreshError(c, check)), cl)
           ELSE IF check = "refresh"
           THEN /\ pc' = [pc EXCEPT ![p] = "har_gen"]
                /\ call' = [call EXCEPT ![p] = cl]
                /\ UNCHANGED phase
           ELSE AfterRefresh(p, cl)
    /\ UNCHANGED <<c, now, wire, ncalls, nticks, norm, limit>>

\* from its entry to the test time.Since(c.AuthTime) > ttl
HandleAutoRefresh(p) ==
    /\ pc[p] = "har"
    /\ LET check == AutoRefreshCheck(c, now)
           cl == [call[p] EXCEPT !.checked = TRUE, !.elapsed = now - c.AuthTime]
       IN  IF check \in {"no secret", "unknown remember"}
           THEN Return(p, AfterRefreshError(cl, AutoRefreshError(c, check)), cl)
           ELSE IF check = "refresh"
           THEN /\ pc' = [pc EXCEPT ![p] = "har_gen"]
                /\ call' = [call EXCEPT ![p] = cl]
                /\ UNCHANGED phase
           ELSE AfterRefresh(p, cl)
    /\ UNCHANGED <<c, now, wire, ncalls, nticks, norm, limit>>

\* a bug that stamps the session as renewed before the login is made
RefreshGenerateStampsTime(p) ==
    /\ pc[p] = "har_gen"
    /\ LET gen == GenerateOtpCode(c.OtpSecret, now)
       IN  /\ c' = [c EXCEPT !.OtpCode = gen.code, !.AuthTime = now]
           /\ IF gen.err # NilErr
              THEN Return(p, AfterRefreshError(call[p],
                              GoNobitexError("failed to generate Otp code: " \o gen.err.Message, gen.err)),
                          call[p])
              ELSE /\ pc' = [pc EXCEPT ![p] = "auth"]
                   /\ call' = [call EXCEPT ![p] =
                                   [@ EXCEPT !.refreshing = TRUE,
                                             !.Username = c.Username,
                                             !.Password = c.Password]]
                   /\ UNCHANGED phase
    /\ UNCHANGED <<now, wire, ncalls, nticks, norm, limit>>

\* code, err := u.GenerateOtpCode(c.OtpSecret); c.OtpCode = code; then the
\* call of Authenticate(c.Username, c.Password)
RefreshGenerate(p) ==
    /\ pc[p] = "har_gen"
    /\ LET gen == GenerateOtpCode(c.OtpSecret, now)
       IN  /\ c' = [c EXCEPT !.OtpCode = gen.code]
           /\ IF gen.err # NilErr
              THEN Return(p, AfterRefreshError(call[p],
                              GoNobitexError("failed to generate Otp code: " \o gen.err.Message, gen.err)),
                          call[p])
              ELSE /\ pc' = [pc EXCEPT ![p] = "auth"]
                   /\ call' = [call EXCEPT ![p] =
                                   [@ EXCEPT !.refreshing = TRUE,
                                             !.Username = c.Username,
                                             !.Password = c.Password]]
                   /\ UNCHANGED phase
    /\ UNCHANGED <<now, wire, ncalls, nticks, norm, limit>>

----------------------------------------------------------------------------
(* Authenticate *)

\* a direct call of Authenticate by the user of the client
StartAuthenticate(p, Username, Password) ==
    /\ phase = "ready"
    /\ pc[p] \in {"idle", "done"}
    /\ ncalls[p] < limit
    /\ ncalls' = [ncalls EXCEPT ![p] = @ + 1]
    /\ pc' = [pc EXCEPT ![p] = "auth"]
    /\ call' = [call EXCEPT ![p] =
                    [ZeroCall EXCEPT !.op = "Authenticate", !.Username = Username,
                                     !.Password = Password, !.c0 = c, !.t0 = now,
                                     !.failed = FailedRefreshes(call[p])]]
    /\ wire' = [wire EXCEPT ![p] = <<>>]
    /\ UNCHANGED <<c, phase, now, nticks, norm, limit>>

\* Authenticate from its entry to HttpClient.Do of the login request:
\* ApiRequest("POST", "/auth/login/", "", false, true, reqBody, &authResponse)
AuthenticateSend(p) ==
    /\ pc[p] = "auth"
    /\ LET cl == call[p]
           fail(e) == /\ Return(p, AfterAuthenticateError(cl, e), [cl EXCEPT !.authErr = e])
                      /\ UNCHANGED wire
       IN  IF CredentialsEmpty(cl.Username, cl.Password)
           THEN fail(GoNobitexError("Username and/or password are empty", NilErr))
           ELSE IF UserAgentEmpty(c)
           THEN fail(AuthenticateError(UserAgentError))
           ELSE /\ wire' = [wire EXCEPT ![p] =
                               Append(@, Wire("login", Headers(c, FALSE, TRUE),
                                              LoginRequestBody(c, cl.Username, cl.Password)))]
                /\ pc' = [pc EXCEPT ![p] = "login_wait"]
                /\ UNCHANGED <<call, phase>>
    /\ UNCHANGED <<c, now, ncalls, nticks, norm, limit>>

\* the login request returns, and Authenticate tests err
LoginResponse(p, outcome) ==
    /\ pc[p] = "login_wait"
    /\ LET e == RequestResult(outcome, "AuthenticationResponse")
           cl == [call[p] EXCEPT !.io = outcome.k, !.resp = outcome.resp]
       IN  IF e # NilErr
           THEN Return(p, AfterAuthenticateError(cl, AuthenticateError(e)),
                       [cl EXCEPT !.authErr = AuthenticateError(e)])
           ELSE /\ pc' = [pc EXCEPT ![p] = "auth_time"]
                /\ call' = [call EXCEPT ![p] =
                                [cl EXCEPT !.key = ResponseKey(outcome.resp.body)]]
                /\ UNCHANGED phase
    /\ UNCHANGED <<c, now, wire, ncalls, nticks, norm, limit>>

\* c.AuthTime = time.Now()
AuthenticateSetTime(p) ==
    /\ pc[p] = "auth_time"
    /\ c' = [c EXCEPT !.AuthTime = now]
    /\ call' = [call EXCEPT ![p].pre = <<c.ApiKey, c.AuthTime>>]
    /\ pc' = [pc EXCEPT ![p] = "auth_key"]
    /\ UNCHANGED <<phase, now, wire, ncalls, nticks, norm, limit>>

\* a bug that keeps the credentials of the login together with its key
AuthenticateSetKeyAndCredentials(p) ==
    /\ pc[p] = "auth_key"
    /\ c' = [c EXCEPT !.ApiKey = call[p].key, !.Username = call[p].Username,
                      !.Password = call[p].Password]
    /\ IF call[p].refreshing
       THEN AfterRefresh(p, call[p])
       ELSE IF call[p].op = "NewClient"
       THEN /\ pc' = [pc EXCEPT ![p] = "nc_finish"]
            /\ UNCHANGED <<call, phase>>
       ELSE Return(p, NilErr, call[p])
    /\ UNCHANGED <<now, wire, ncalls, nticks, norm, limit>>

\* c.ApiKey = authResponse.Key; return &authResponse, nil
AuthenticateSetKey(p) ==
    /\ pc[p] = "auth_key"
    /\ c' = [c EXCEPT !.ApiKey = call[p].key]
    /\ IF call[p].refreshing
       THEN AfterRefresh(p, call[p])
       ELSE IF call[p].op = "NewClient"
       THEN /\ pc' = [pc EXCEPT ![p] = "nc_finish"]
            /\ UNCHANGED <<call, phase>>
       ELSE Return(p, NilErr, call[p])
    /\ UNCHANGED <<now, wire, ncalls, nticks, norm, limit>>

----------------------------------------------------------------------------
(* Request, for an endpoint call *)

\* Request up to "if auth": the request is built from the arguments alone
StartRequest(p, auth, otpRequired, hasResult) ==
    /\ phase = "ready"
    /\ pc[p] \in {"idle", "done"}
    /\ ncalls[p] < limit
    /\ ncalls' = [ncalls EXCEPT ![p] = @ + 1]
    /\ pc' = [pc EXCEPT ![p] = IF auth
                               THEN (IF c.AutoRefresh THEN "har" ELSE "assert")
                               ELSE "send"]
    /\ call' = [call EXCEPT ![p] =
                    [ZeroCall EXCEPT !.op = "Request", !.auth = auth,
                                     !.otpRequired = otpRequired,
                                     !.hasResult = hasResult, !.c0 = c, !.t0 = now,
                                     !.failed = FailedRefreshes(call[p])]]
    /\ wire' = [wire EXCEPT ![p] = <<>>]
    /\ UNCHANGED <<c, phase, now, nticks, norm, limit>>

\* a Request that returns before "if auth": its parameters or body cannot be
\* encoded, or http.NewRequest rejects the method or the URL
RequestNotBuilt(p, failure) ==
    /\ phase = "ready"
    /\ pc[p] \in {"idle", "done"}
    /\ ncalls[p] < limit
    /\ ncalls' = [ncalls EXCEPT ![p] = @ + 1]
    /\ pc' = [pc EXCEPT ![p] = "done"]
    /\ call' = [call EXCEPT ![p] =
                    [ZeroCall EXCEPT !.op = "Request", !.io = failure,
                                     !.err = BuildError(failure), !.c0 = c, !.t0 = now,
                                     !.failed = FailedRefreshes(call[p])]]
    /\ wire' = [wire EXCEPT ![p] = <<>>]
    /\ UNCHANGED <<c, phase, now, nticks, norm, limit>>

\* assertAuth(c), then the test of c.UserAgent
AssertAuth(p) ==
    /\ pc[p] = "assert"
    /\ IF assertAuth(c) # NilErr
       THEN Return(p, GoNobitexError("authentication validation failed", assertAuth(c)),
                   call[p])
       ELSE IF UserAgentEmpty(c)
       THEN Return(p, UserAgentError, call[p])
       ELSE /\ pc' = [pc EXCEPT ![p] = "send"]
            /\ UNCHANGED <<call, phase>>
    /\ UNCHANGED <<c, now, wire, ncalls, nticks, norm, limit>>

\* a bug that sets the headers from the session as it was when Request began
SendWithEarlyHeaders(p) ==
    /\ pc[p] = "send"
    /\ IF call[p].otpRequired /\ UserAgentEmpty(c)
       THEN /\ Return(p, UserAgentError, call[p])
            /\ UNCHANGED wire
       ELSE /\ wire' = [wire EXCEPT ![p] =
                           Append(@, Wire("endpoint",
                                          Headers(call[p].c0, call[p].auth,
                                                  call[p].otpRequired),
                                          NoLogin))]
            /\ pc' = [pc EXCEPT ![p] = "ep_wait"]
            /\ UNCHANGED <<call, phase>>
    /\ UNCHANGED <<c, now, ncalls, nticks, norm, limit>>

\* the headers are set from c.ApiKey and c.OtpCode, and HttpClient.Do is called
Send(p) ==
    /\ pc[p] = "send"
    /\ IF call[p].otpRequired /\ UserAgentEmpty(c)
       THEN /\ Return(p, UserAgentError, call[p])
            /\ UNCHANGED wire
       ELSE /\ wire' = [wire EXCEPT ![p] =
                           Append(@, Wire("endpoint",
                                          Headers(c, call[p].auth, call[p].otpRequired),
                                          NoLogin))]
            /\ pc' = [pc EXCEPT ![p] = "ep_wait"]
            /\ UNCHANGED <<call, phase>>
    /\ UNCHANGED <<c, now, ncalls, nticks, norm, limit>>

\* the endpoint request returns, and Request returns
EndpointResponse(p, outcome) ==
    /\ pc[p] = "ep_wait"
    /\ Return(p, RequestResult(outcome, IF call[p].hasResult THEN "result" ELSE ""),
              [call[p] EXCEPT !.io = outcome.k, !.resp = outcome.resp])
    /\ UNCHANGED <<c, now, wire, ncalls, nticks, norm, limit>>

----------------------------------------------------------------------------
(* Time *)

\* An hour passes.  Statements that touch no network take no time at this
\* scale: the clock moves only while every goroutine rests or waits for a
\* response.
Tick ==
    /\ phase = "ready"
    /\ nticks < MaxTicks
    /\ \A p \in Procs : pc[p] \in {"idle", "done", "off", "login_wait", "ep_wait"}
    /\ now' = now + 1
    /\ nticks' = nticks + 1
    /\ UNCHANGED <<c, phase, pc, call, wire, ncalls, norm, limit>>

----------------------------------------------------------------------------
(* Specifications *)

Step(p) ==
    \/ HandleAutoRefresh(p)
    \/ RefreshGenerate(p)
    \/ \E u \in {"", "user"}, pw \in {"", "pass"} : StartAuthenticate(p, u, pw)
    \/ AuthenticateSend(p)
    \/ \E o \in LoginOutcomes : LoginResponse(p, o)
    \/ AuthenticateSetTime(p)
    \/ AuthenticateSetKey(p)
    \/ \E a \in BOOLEAN, o \in BOOLEAN, r \in BOOLEAN : StartRequest(p, a, o, r)
    \/ \E f \in BuildFailures : RequestNotBuilt(p, f)
    \/ AssertAuth(p)
    \/ Send(p)
    \/ \E o \in EndpointOutcomes : EndpointResponse(p, o)

\* One goroutine builds a client, with NewClient or as a literal, and calls it.
Init ==
    /\ c = ZeroClient
    /\ phase = "new"
    /\ now = StartTime
    /\ pc = [p \in Procs |-> IF p = 1 THEN "idle" ELSE "off"]
    /\ call = [p \in Procs |-> ZeroCall]
    /\ wire = [p \in Procs |-> <<>>]
    /\ ncalls = [p \in Procs |-> 0]
    /\ nticks = 0
    /\ norm = NoNorm
    /\ limit = MaxCalls

Next ==
    \/ \E opts \in OptionsSet : NewClient(1, opts)
    \/ NewClientFinish(1)
    \/ \E lit \in LiteralSet : ClientLiteral(1, lit)
    \/ \E p \in Procs : Step(p)
    \/ Tick

Spec == Init /\ [][Next]_vars

\* Two goroutines share a client that holds a key and can refresh it.
SharedSet ==
    [Username : {"user"}, Password : {"pass"},
     OtpSecret : {ValidSecret}, OtpCode : {GivenCode},
     Remember : {"no", "yes"}, UserAgent : {"Bot/1.0"},
     AuthTime : {StartTime - TTLLong, StartTime - TTLShort},
     ApiKey : {"k0"}, AutoRefresh : {TRUE}, BaseUrl : {BaseUrl}]

InitShared ==
    /\ c \in SharedSet
    /\ phase = "ready"
    /\ now = StartTime
    /\ pc = [p \in Procs |-> "idle"]
    /\ call = [p \in Procs |-> ZeroCall]
    /\ wire = [p \in Procs |-> <<>>]
    /\ ncalls = [p \in Procs |-> 0]
    /\ nticks = 0
    /\ norm = NoNorm
    /\ limit = MaxCalls

\* the same steps, for authenticated endpoint calls and logins that the
\* server accepts or rejects
SharedStep(p) ==
    \/ HandleAutoRefresh(p)
    \/ RefreshGenerate(p)
    \/ StartAuthenticate(p, "user", "pass")
    \/ AuthenticateSend(p)
    \/ \E o \in Received({Response(200, LoginBody("k1")), Response(200, LoginBody("k2")),
                          Response(200, EmptyObject), Response(401, DetailBody)}) :
           LoginResponse(p, o)
    \/ AuthenticateSetTime(p)
    \/ AuthenticateSetKey(p)
    \/ StartRequest(p, TRUE, FALSE, TRUE)
    \/ AssertAuth(p)
    \/ Send(p)
    \/ \E o \in Received({Response(200, EmptyObject), Response(401, DetailBody)}) :
           EndpointResponse(p, o)

NextShared ==
    \/ \E p \in Procs : SharedStep(p)
    \/ Tick

SpecShared == InitShared /\ [][NextShared]_vars

\* One goroutine makes a series of calls on a client that holds a key and
\* can refresh it.
\* calls made in the series
MaxSessionCalls == 3

SessionSet ==
    [Username : {"user"}, Password : {"pass"},
     OtpSecret : {ValidSecret}, OtpCode : {GivenCode},
     Remember : {"no", "yes"}, UserAgent : {"Bot/1.0"},
     AuthTime : {StartTime - TTLLong, StartTime - TTLShort},
     ApiKey : {"k0"}, AutoRefresh : BOOLEAN, BaseUrl : {BaseUrl}]

InitSession ==
    /\ c \in SessionSet
    /\ phase = "ready"
    /\ now = StartTime
    /\ pc = [p \in Procs |-> IF p = 1 THEN "idle" ELSE "off"]
    /\ call = [p \in Procs |-> ZeroCall]
    /\ wire = [p \in Procs |-> <<>>]
    /\ ncalls = [p \in Procs |-> 0]
    /\ nticks = 0
    /\ norm = NoNorm
    /\ limit = MaxSessionCalls

\* authenticated endpoint calls, and logins as another user, which the
\* server accepts or rejects
SessionStep(p) ==
    \/ HandleAutoRefresh(p)
    \/ RefreshGenerate(p)
    \/ StartAuthenticate(p, "other", "word")
    \/ AuthenticateSend(p)
    \/ \E o \in Received({Response(200, LoginBody("k1")), Response(401, DetailBody)}) :
           LoginResponse(p, o)
    \/ AuthenticateSetTime(p)
    \/ AuthenticateSetKey(p)
    \/ StartRequest(p, TRUE, FALSE, TRUE)
    \/ AssertAuth(p)
    \/ Send(p)
    \/ \E o \in Received({Response(200, EmptyObject), Response(401, DetailBody)}) :
           EndpointResponse(p, o)

NextSession ==
    \/ SessionStep(1)
    \/ Tick

SpecSession == InitSession /\ [][NextSession]_vars

\* parseErrorResponse on every status and body below.
\* members of an object body
MaxMembers == 2

ErrorStatuses == {200, 401, 500}
ErrorKeys == {"message", "Message", "detail", "Detail", "code"}
ErrorValues ==
    {JString(""), JString("m"), JString("d"), JNumber("5"), JNull,
     JArray(<<JString("a"), JNumber("1")>>)}
ErrorBodies ==
    {NotJSON, JSONArrayBody} \cup
    UNION {{ObjectBody(ks, vs) : ks \in [1..n -> ErrorKeys], vs \in [1..n -> ErrorValues]} :
           n \in 0..MaxMembers}

InitNormalize ==
    /\ c = ZeroClient
    /\ phase = "new"
    /\ now = StartTime
    /\ pc = [p \in Procs |-> "off"]
    /\ call = [p \in Procs |-> ZeroCall]
    /\ wire = [p \in Procs |-> <<>>]
    /\ ncalls = [p \in Procs |-> 0]
    /\ nticks = 0
    /\ norm \in [statusCode : ErrorStatuses, respBody : ErrorBodies, apiErr : {NilErr}]
    /\ limit = MaxCalls

\* apiErr := parseErrorResponse(statusCode, respBody)
Normalize ==
    /\ norm.apiErr = NilErr
    /\ norm' = [norm EXCEPT !.apiErr = parseErrorResponse(norm.statusCode, norm.respBody)]
    /\ UNCHANGED <<c, phase, now, pc, call, wire, ncalls, nticks, limit>>

NextNormalize == Normalize

SpecNormalize == InitNormalize /\ [][NextNormalize]_vars

----------------------------------------------------------------------------
(* Vocabulary of the properties *)

\* the time-to-live table of the specification, in hours
Limit(remember) == IF remember = "yes" THEN 30 * 24 ELSE 4

Done(p, op) == pc[p] = "done" /\ call[p].op = op

\* an authenticated endpoint call that found the session stale when it began
StartedStale(p) ==
    /\ call[p].op = "Request"
    /\ call[p].auth
    /\ call[p].c0.AutoRefresh
    /\ call[p].c0.Remember \in {"no", "", "yes"}
    /\ call[p].t0 - call[p].c0.AuthTime > Limit(call[p].c0.Remember)

Dispatched(p) == Endpoints(wire[p]) # {}
EndpointRequest(p) == wire[p][CHOOSE i \in Endpoints(wire[p]) : TRUE]

----------------------------------------------------------------------------
(* C1 *)

\* C1: when two authenticated calls with AutoRefresh on run concurrently on
\* a client whose session is stale (both began on the same stale session),
\* and both dispatch their endpoint request, exactly one login request was
\* sent by the two together and both endpoint requests carry the same key,
\* which is not the stale one.
C1_OneLoginForConcurrentStaleCalls ==
    \A p, q \in Procs :
        ( /\ p # q
          /\ StartedStale(p) /\ StartedStale(q)
          /\ call[p].c0.AuthTime = call[q].c0.AuthTime
          /\ Dispatched(p) /\ Dispatched(q) )
        => /\ Cardinality(Logins(wire[p])) + Cardinality(Logins(wire[q])) = 1
           /\ EndpointRequest(p).hdr.Authorization = EndpointRequest(q).hdr.Authorization
           /\ EndpointRequest(p).hdr.Authorization # "Token " \o call[p].c0.ApiKey

----------------------------------------------------------------------------
(* C2 *)

\* C2: while a login stores its result and another call is about to read
\* the session, the pair (ApiKey, AuthTime) is the pair from before the
\* login or the pair after it, never the new AuthTime with the old ApiKey.
C2_NoTornSession ==
    \A p, q \in Procs :
        ( /\ p # q
          /\ pc[p] = "auth_key"
          /\ pc[q] \in {"har", "assert", "send"} )
        => \/ <<c.ApiKey, c.AuthTime>> = call[p].pre
           \/ <<c.ApiKey, c.AuthTime>> = <<call[p].key, c.AuthTime>>

----------------------------------------------------------------------------
(* C3 *)

\* C3: NewClient given a non-empty ApiKey sends no login request and
\* returns a nil error and a client whose ApiKey is the key supplied.
C3_SuppliedKeyBypassesLogin ==
    \A p \in Procs :
        (Done(p, "NewClient") /\ call[p].opts.ApiKey # "")
        => /\ wire[p] = <<>>
           /\ call[p].err = NilErr
           /\ phase = "ready"
           /\ c.ApiKey = call[p].opts.ApiKey

----------------------------------------------------------------------------
(* C4 *)

\* the options of the README: credentials, a supplied code, no secret
ReadmeOptions(opts) ==
    /\ opts.Username # "" /\ opts.Password # ""
    /\ opts.OtpCode = GivenCode /\ opts.OtpSecret = ""
    /\ opts.Remember = "yes" /\ opts.UserAgent # ""
    /\ opts.ApiKey = ""

\* the server accepted the login of the call of p and returned a key
LoginAccepted(p) ==
    /\ Logins(wire[p]) # {}
    /\ call[p].io = "response"
    /\ call[p].resp.StatusCode = 200
    /\ UnmarshalOK(call[p].resp.body, {"status", "key", "device"})
    /\ HasKey(call[p].resp.body, "key")

\* C4: NewClient called with the options of the README, the server
\* accepting the login, returns a nil error and a client whose ApiKey is
\* the key of the login response.
C4_ReadmeConstructionSucceeds ==
    \A p \in Procs :
        (Done(p, "NewClient") /\ ReadmeOptions(call[p].opts) /\ LoginAccepted(p))
        => /\ call[p].err = NilErr
           /\ phase = "ready"
           /\ c.ApiKey = Member(call[p].resp.body, "key").s

----------------------------------------------------------------------------
(* C5 *)

\* handleAutoRefresh returned nil to the call of p in this step
RefreshReturnedNil(p) ==
    \/ call[p].op = "Request" /\ pc'[p] = "assert"
    \/ call[p].op = "NewClient" /\ pc'[p] = "done" /\ call'[p].err = NilErr

\* C5: whenever handleAutoRefresh runs with a recognised Remember and the
\* time since AuthTime does not exceed the TTL, it returns nil, sends no
\* request and changes no field of the client, with or without a secret.
C5_FreshCheckChangesNothing ==
    [][\A p \in Procs :
          ( /\ pc[p] = "har" /\ pc'[p] # "har"
            /\ c.Remember \in {"no", "", "yes"}
            /\ now - c.AuthTime <= Limit(c.Remember) )
          => /\ RefreshReturnedNil(p)
             /\ c' = c
             /\ wire' = wire]_vars

----------------------------------------------------------------------------
(* C6 *)

\* handleAutoRefresh has run its test in the call of p and has either
\* returned or called Authenticate
RefreshDecided(p) == call[p].checked /\ pc[p] # "har_gen"

\* C6 as stated: with any secret configured and Remember in {"no", "",
\* "yes"}, handleAutoRefresh calls Authenticate if and only if the time
\* since AuthTime is strictly greater than the TTL (4 hours, 30 days).
C6_LoginIffExpired ==
    \A p \in Procs :
        ( /\ RefreshDecided(p)
          /\ c.OtpSecret # ""
          /\ c.Remember \in {"no", "", "yes"} )
        => (call[p].refreshing <=> call[p].elapsed > Limit(c.Remember))

\* C6, amended: with a secret from which a code can be generated and
\* Remember in {"no", "", "yes"}, handleAutoRefresh calls Authenticate if
\* and only if the time since AuthTime is strictly greater than the TTL,
\* 4 hours for "no" and "", 30 days for "yes"; at exactly the TTL it does not.
C6_LoginIffExpiredValidSecret ==
    \A p \in Procs :
        ( /\ RefreshDecided(p)
          /\ c.OtpSecret = ValidSecret
          /\ c.Remember \in {"no", "", "yes"} )
        => (call[p].refreshing <=> call[p].elapsed > Limit(c.Remember))

\* a refresh one hour after the short TTL ran out called Authenticate
C6_Witness ==
    \E p \in Procs :
        /\ RefreshDecided(p)
        /\ c.OtpSecret = ValidSecret
        /\ c.Remember = "no"
        /\ call[p].elapsed = 5
        /\ call[p].refreshing

----------------------------------------------------------------------------
(* C7 *)

\* C7: on a client whose Remember is not "yes", "no" or "", no request is
\* sent by NewClient, by Authenticate or by an authenticated Request.
C7_UnknownRememberSendsNothing ==
    \A p \in Procs :
        ( /\ c.Remember \notin {"no", "", "yes"}
          /\ \/ call[p].op \in {"NewClient", "Authenticate"}
             \/ call[p].op = "Request" /\ call[p].auth )
        => wire[p] = <<>>

----------------------------------------------------------------------------
(* C8 *)

\* C8: when Authenticate is entered with an empty username or an empty
\* password, it returns an error, sends no request and leaves ApiKey,
\* AuthTime and OtpCode as they were.
C8_EmptyCredentialsRejected ==
    [][\A p \in Procs :
          ( /\ pc[p] = "auth" /\ pc'[p] # "auth"
            /\ (call[p].Username = "" \/ call[p].Password = "") )
          => /\ call'[p].authErr # NilErr
             /\ pc'[p] = "done"
             /\ call'[p].err # NilErr
             /\ wire' = wire
             /\ c'.ApiKey = c.ApiKey
             /\ c'.AuthTime = c.AuthTime
             /\ c'.OtpCode = c.OtpCode]_vars

\* Authenticate("", "pass") on a client that holds a key has returned
C8_Witness ==
    \E p \in Procs :
        /\ Done(p, "Authenticate")
        /\ call[p].Username = "" /\ call[p].Password = "pass"
        /\ call[p].err # NilErr
        /\ wire[p] = <<>>
        /\ c.ApiKey = "k0"

----------------------------------------------------------------------------
(* C9 *)

\* the login request of p has just been answered with a 2xx status
LoginAnswered2xx(p) ==
    /\ pc[p] = "login_wait" /\ pc'[p] # "login_wait"
    /\ call'[p].io = "response"
    /\ call'[p].resp.StatusCode >= 200 /\ call'[p].resp.StatusCode < 300

\* Authenticate stores the key of the response and the time, returns nil,
\* and leaves a session that is fresh for a recognised Remember
StoresSession(p) ==
    (pc[p] = "auth_key" /\ pc'[p] # "auth_key")
    => /\ c'.ApiKey = StringField(call[p].resp.body, "key")
       /\ c'.AuthTime = now'
       /\ call'[p].authErr = NilErr
       /\ call[p].op = "Authenticate" => (pc'[p] = "done" /\ call'[p].err = NilErr)
       /\ c'.Remember \in {"no", "", "yes"} => now' - c'.AuthTime <= Limit(c'.Remember)

\* C9 as stated: whenever the login request returns a 2xx response,
\* Authenticate goes on to store the key and the time of the response.
C9_Every2xxStoresSession ==
    [][\A p \in Procs :
          /\ LoginAnswered2xx(p) => pc'[p] = "auth_time"
          /\ StoresSession(p)]_vars

\* C9, amended: whenever the login request returns a 2xx response whose
\* body decodes as JSON into the AuthenticationResponse, Authenticate sets
\* ApiKey to the key of that response and AuthTime to the time of the
\* success and returns the response with a nil error; after it the session
\* is fresh for the configured Remember.
C9_Decoded2xxStoresSession ==
    [][\A p \in Procs :
          /\ ( /\ LoginAnswered2xx(p)
               /\ UnmarshalOK(call'[p].resp.body, {"status", "key", "device"}) )
             => (pc'[p] = "auth_time" /\ call'[p].key = StringField(call'[p].resp.body, "key"))
          /\ StoresSession(p)]_vars

\* Authenticate has returned after a login answered 200 with key "k1",
\* made one hour after the previous session began
C9_Witness ==
    \E p \in Procs :
        /\ Done(p, "Authenticate")
        /\ call[p].err = NilErr
        /\ call[p].resp = Response(200, LoginBody("k1"))
        /\ c.ApiKey = "k1"
        /\ call[p].c0.ApiKey = "k0"
        /\ c.AuthTime = StartTime + 1
        /\ now = c.AuthTime

----------------------------------------------------------------------------
(* C10 *)

\* C10: when the login request gets a status outside 200..299, the error
\* Authenticate returns is the APIError the normalizer makes of that
\* status and body, unwrapped, for 401, 429 and every other status.
C10_LoginFailureIsNormalizedError ==
    \A p \in Procs :
        ( /\ Logins(wire[p]) # {}
          /\ Endpoints(wire[p]) = {}
          /\ call[p].io = "response"
          /\ (call[p].resp.StatusCode < 200 \/ call[p].resp.StatusCode >= 300) )
        => /\ call[p].authErr = parseErrorResponse(call[p].resp.StatusCode, call[p].resp.body)
           /\ call[p].authErr.type = "APIError"
           /\ call[p].authErr.StatusCode = call[p].resp.StatusCode
           /\ call[p].op = "Authenticate" => call[p].err = call[p].authErr

\* Authenticate has returned the normalized error of a 401 login response
C10_Witness ==
    \E p \in Procs :
        /\ Done(p, "Authenticate")
        /\ call[p].resp = Response(401, DetailBody)
        /\ call[p].err.type = "APIError"
        /\ call[p].err.Message = "bad request"

----------------------------------------------------------------------------
(* C11 *)

\* C11: a successful Authenticate leaves ApiKey non-empty, and once ApiKey
\* is non-empty no later step of any operation makes it empty again.
C11_KeyNeverEmptyAgain ==
    [][ /\ \A p \in Procs :
            (pc[p] = "auth_key" /\ pc'[p] # "auth_key") => c'.ApiKey # ""
        /\ (phase = "ready" /\ c.ApiKey # "") => c'.ApiKey # "" ]_vars

----------------------------------------------------------------------------
(* C12 *)

\* C12: for every Request with auth=true, if ApiKey is empty when assertAuth
\* runs (after the optional refresh), the call returns the authentication
\* error and dispatches no endpoint request; and no dispatched request
\* carries an Authorization header built from an empty key.
C12_NoEmptyKeyOnTheWire ==
    /\ [][ \A p \in Procs :
              (pc[p] = "assert" /\ pc'[p] # "assert" /\ c.ApiKey = "")
              => /\ pc'[p] = "done"
                 /\ call'[p].err = GoNobitexError("authentication validation failed",
                                                  GoNobitexError("access token is empty", NilErr))
                 /\ Endpoints(wire'[p]) = {} ]_vars
    /\ [](\A p \in Procs : \A i \in 1..Len(wire[p]) :
              wire[p][i].hdr.hasAuthorization => wire[p][i].hdr.Authorization # "Token ")

----------------------------------------------------------------------------
(* C13 *)

\* C13: with an empty UserAgent, a Request with auth=true returns an error
\* and hands nothing to the network: neither the endpoint request nor the
\* login of a refresh.
C13_EmptyUserAgentSendsNothing ==
    \A p \in Procs :
        (phase = "ready" /\ c.UserAgent = "" /\ call[p].op = "Request" /\ call[p].auth)
        => /\ wire[p] = <<>>
           /\ pc[p] \notin {"login_wait", "ep_wait", "auth_time", "auth_key"}
           /\ pc[p] = "done" => call[p].err # NilErr

\* a stale session with AutoRefresh on and no UserAgent: the refresh called
\* Authenticate, which sent nothing, and Request returned the error
C13_Witness ==
    \E p \in Procs :
        /\ Done(p, "Request")
        /\ call[p].auth
        /\ c.UserAgent = ""
        /\ c.AutoRefresh
        /\ c.ApiKey # ""
        /\ call[p].refreshing
        /\ call[p].authErr = UserAgentError
        /\ call[p].err.type = "GoNobitexError"
        /\ call[p].err.Message = "failed to refresh authentication"
        /\ wire[p] = <<>>

----------------------------------------------------------------------------
(* C14 *)

\* C14: a dispatched request carries X-TOTP, with the current OtpCode, if
\* and only if otpRequired, and Authorization "Token <ApiKey>" if and only
\* if auth; the login (otpRequired, not auth) carries X-TOTP and no
\* Authorization.
C14_HeadersFollowFlags ==
    \A p \in Procs :
        /\ \A i \in Endpoints(wire[p]) :
              LET hdr == wire[p][i].hdr
              IN  /\ hdr.hasTOTP <=> call[p].otpRequired
                  /\ hdr.hasTOTP => hdr.XTOTP = c.OtpCode
                  /\ hdr.hasAuthorization <=> call[p].auth
                  /\ hdr.hasAuthorization => hdr.Authorization = "Token " \o c.ApiKey
        /\ \A i \in Logins(wire[p]) :
              LET hdr == wire[p][i].hdr
              IN  /\ hdr.hasTOTP
                  /\ hdr.XTOTP = c.OtpCode
                  /\ ~hdr.hasAuthorization

\* a login is on the wire while the client holds no key
C14_Witness ==
    \E p \in Procs :
        /\ pc[p] = "login_wait"
        /\ call[p].op = "Authenticate"
        /\ c.ApiKey = ""
        /\ Len(wire[p]) = 1
        /\ wire[p][1].to = "login"
        /\ wire[p][1].hdr.hasTOTP
        /\ wire[p][1].hdr.XTOTP = GivenCode
        /\ ~wire[p][1].hdr.hasAuthorization

----------------------------------------------------------------------------
(* C15 *)

\* C15: with a non-empty key, no shared secret and the TTL expired, the
\* freshness check of an authenticated Request fails with a configuration
\* error, sends nothing, leaves ApiKey and AuthTime as they were, and the
\* endpoint request is not dispatched with the old key.
C15_StaleWithoutSecretFails ==
    \A p \in Procs :
        ( /\ call[p].op = "Request"
          /\ call[p].auth
          /\ call[p].c0.AutoRefresh
          /\ call[p].c0.ApiKey # ""
          /\ call[p].c0.OtpSecret = ""
          /\ call[p].t0 - call[p].c0.AuthTime > Limit(call[p].c0.Remember)
          /\ pc[p] # "har" )
        => /\ pc[p] = "done"
           /\ call[p].err =
                  GoNobitexError("failed to refresh authentication",
                      GoNobitexError("Otp secret is empty, can't refresh Api Key!", NilErr))
           /\ wire[p] = <<>>
           /\ c.ApiKey = call[p].c0.ApiKey
           /\ c.AuthTime = call[p].c0.AuthTime

\* such a Request has returned: key "k0", no secret, 720 hours old
C15_Witness ==
    \E p \in Procs :
        /\ Done(p, "Request")
        /\ call[p].auth
        /\ c.AutoRefresh
        /\ c.ApiKey = "k0"
        /\ c.OtpSecret = ""
        /\ c.Remember = "no"
        /\ call[p].t0 - c.AuthTime = TTLLong
        /\ call[p].checked
        /\ call[p].err.type = "GoNobitexError"
        /\ wire[p] = <<>>

----------------------------------------------------------------------------
(* C16 *)

\* how many statements of Request or Authenticate can still follow
StepsLeft(at) ==
    CASE at = "har" -> 9
      [] at = "har_gen" -> 8
      [] at = "auth" -> 7
      [] at = "login_wait" -> 6
      [] at = "auth_time" -> 5
      [] at = "auth_key" -> 4
      [] at = "assert" -> 3
      [] at = "send" -> 2
      [] at = "ep_wait" -> 1
      [] OTHER -> 0

\* C16: a call of Request or Authenticate dispatches at most one login and
\* at most one endpoint request, the login first; after a failed login of a
\* refresh no endpoint request is dispatched; and every step of the call
\* brings it nearer to its return, so that nothing is sent or checked again.
C16_AtMostOneLoginOneEndpoint ==
    /\ [](\A p \in Procs :
             call[p].op \in {"Request", "Authenticate"}
             => /\ Cardinality(Logins(wire[p])) <= 1
                /\ Cardinality(Endpoints(wire[p])) <= 1
                /\ Len(wire[p]) = 2 => (wire[p][1].to = "login" /\ wire[p][2].to = "endpoint")
                /\ call[p].authErr # NilErr => Endpoints(wire[p]) = {}
                /\ (pc[p] = "done" /\ Endpoints(wire[p]) # {}) => call[p].io # "")
    /\ [][ \A p \in Procs :
              ( /\ call[p].op \in {"Request", "Authenticate"}
                /\ pc[p] \notin {"idle", "done", "off"}
                /\ pc'[p] # pc[p] )
              => StepsLeft(pc'[p]) < StepsLeft(pc[p]) ]_vars

\* a Request refreshed the session with one login, then sent its endpoint
\* request once, which failed
C16_Witness ==
    \E p \in Procs :
        /\ Done(p, "Request")
        /\ call[p].refreshing
        /\ Len(wire[p]) = 2
        /\ call[p].authErr = NilErr
        /\ call[p].err.type = "APIError"

\* the login of a refresh failed and Request returned without dispatching
C16_WitnessFailedRefresh ==
    \E p \in Procs :
        /\ Done(p, "Request")
        /\ call[p].refreshing
        /\ call[p].authErr.type = "APIError"
        /\ Len(wire[p]) = 1
        /\ wire[p][1].to = "login"

----------------------------------------------------------------------------
(* C17 *)

\* C17: with AutoRefresh disabled neither NewClient nor any Request runs
\* the freshness check, so none of them re-logs in or fails on it; with
\* AutoRefresh enabled every Request with auth=true has run the check
\* before it dispatches.
C17_AutoRefreshGatesCheck ==
    \A p \in Procs :
        /\ (call[p].op \in {"NewClient", "Request"} /\ ~c.AutoRefresh)
           => (~call[p].checked /\ ~call[p].refreshing)
        /\ ( /\ call[p].op = "Request"
             /\ call[p].auth
             /\ c.AutoRefresh
             /\ Endpoints(wire[p]) # {} )
           => call[p].checked

----------------------------------------------------------------------------
(* C18 *)

\* C18: NewClient sends a login only when AutoAuth is enabled and no ApiKey
\* was supplied; with AutoAuth disabled NewClient sends nothing.
C18_AutoAuthGatesLogin ==
    \A p \in Procs :
        call[p].op = "NewClient"
        => /\ Logins(wire[p]) # {} => (call[p].opts.AutoAuth /\ call[p].opts.ApiKey = "")
           /\ ~call[p].opts.AutoAuth => wire[p] = <<>>

----------------------------------------------------------------------------
(* C19 *)

\* C19: for every status code and every body, parseErrorResponse returns an
\* APIError whose StatusCode is the status code given and whose Message is
\* not empty.
C19_NormalizationIsTotal ==
    norm.apiErr # NilErr
    => /\ norm.apiErr.type = "APIError"
       /\ norm.apiErr.StatusCode = norm.statusCode
       /\ norm.apiErr.Message # ""

\* the body {"message": 5, "detail": null} with status 500 was normalized
C19_Witness ==
    /\ norm.statusCode = 500
    /\ norm.respBody = ObjectBody(<<"message", "detail">>, <<JNumber("5"), JNull>>)
    /\ norm.apiErr # NilErr
    /\ norm.apiErr.Message = "API error (500)"

----------------------------------------------------------------------------
(* C20 *)

\* the string value of the body's member k, "" when the body is no object,
\* has no such member, or the member is no string
BodyString(body, k) ==
    IF body.valid /\ body.object /\ HasKey(body, k) /\ Member(body, k).t = "string"
    THEN Member(body, k).s
    ELSE ""

\* the string members of the body whose key is "message" in any letter case
MessageMembers(body) ==
    {i \in 1..Len(body.keys) :
        body.keys[i] \in {"message", "Message", "MESSAGE"} /\ body.vals[i].t = "string"}

\* the last of them, "" when there is none
LastMessage(body) ==
    IF body.valid /\ body.object /\ MessageMembers(body) # {}
    THEN body.vals[CHOOSE i \in MessageMembers(body) :
                       \A j \in MessageMembers(body) : j <= i].s
    ELSE ""

\* C20: Message is the body's "message" if that is a non-empty string,
\* otherwise the body's "detail" if that is a non-empty string, otherwise
\* "API error (<statusCode>)"; Detail is the body's string "detail".
C20_MessagePrecedence ==
    norm.apiErr # NilErr
    => LET message == BodyString(norm.respBody, "message")
           detail == BodyString(norm.respBody, "detail")
       IN  /\ norm.apiErr.Message =
                  IF message # "" THEN message
                  ELSE IF detail # "" THEN detail
                  ELSE "API error (" \o ToString(norm.statusCode) \o ")"
           /\ norm.apiErr.Detail = detail

\* C20, amended: Message is the last string member of the body whose key is
\* "message" in any letter case, if that is non-empty; otherwise the body's
\* "detail" (this key exactly) if that is a non-empty string; otherwise
\* "API error (<statusCode>)"; Detail is the body's string "detail".
C20_MessagePrecedenceFolded ==
    norm.apiErr # NilErr
    => LET message == LastMessage(norm.respBody)
           detail == BodyString(norm.respBody, "detail")
       IN  /\ norm.apiErr.Message =
                  IF message # "" THEN message
                  ELSE IF detail # "" THEN detail
                  ELSE "API error (" \o ToString(norm.statusCode) \o ")"
           /\ norm.apiErr.Detail = detail

\* the body {"detail": "d", "Message": "m"} was normalized: the message
\* wins, the detail is kept
C20_Witness ==
    /\ norm.respBody = ObjectBody(<<"detail", "Message">>, <<JString("d"), JString("m")>>)
    /\ norm.apiErr # NilErr
    /\ norm.apiErr.Message = "m"
    /\ norm.apiErr.Detail = "d"

----------------------------------------------------------------------------
(* C21 *)

\* the keys of an object body
BodyKeys(body) == {body.keys[i] : i \in 1..Len(body.keys)}

\* the list of strings the claim gives for one value of the body
ValueStrings(v) ==
    IF v.t = "array" THEN [i \in 1..Len(v.a) |-> v.a[i].s] ELSE <<v.s>>

\* the values are recorded as C21 says, for the keys of the body
C21_Values ==
    \A k \in BodyKeys(norm.respBody) :
        /\ k \in DOMAIN norm.apiErr.Fields
        /\ norm.apiErr.Fields[k] = ValueStrings(Member(norm.respBody, k))

\* C21: for a body that is a JSON object the keys of Fields are exactly the
\* top-level keys of the body, a string recorded as a one-element list, an
\* array element by element, any other value as its text.
C21_FieldsAreTheBodyKeys ==
    (norm.apiErr # NilErr /\ norm.respBody.valid /\ norm.respBody.object)
    => /\ DOMAIN norm.apiErr.Fields = BodyKeys(norm.respBody)
       /\ C21_Values

\* C21, amended: the keys of Fields are the top-level keys of the body, and
\* in addition "message" when the body has a non-empty string under that
\* key in another letter case, and "code" likewise; the values of the
\* body's own keys are recorded as the claim says.
C21_FieldsAreTheBodyKeysAndFolded ==
    (norm.apiErr # NilErr /\ norm.respBody.valid /\ norm.respBody.object)
    => /\ DOMAIN norm.apiErr.Fields =
              BodyKeys(norm.respBody)
                \cup (IF LastMessage(norm.respBody) # "" THEN {"message"} ELSE {})
                \cup (IF norm.apiErr.Code # "" THEN {"code"} ELSE {})
       /\ C21_Values

\* {"message": "m", "detail": ["a", 1]} was normalized: both keys are in
\* Fields, the consumed one too, the array element by element
C21_Witness ==
    /\ norm.respBody = ObjectBody(<<"message", "detail">>,
                                  <<JString("m"), JArray(<<JString("a"), JNumber("1")>>)>>)
    /\ norm.apiErr # NilErr
    /\ DOMAIN norm.apiErr.Fields = {"message", "detail"}
    /\ norm.apiErr.Fields["message"] = <<"m">>
    /\ norm.apiErr.Fields["detail"] = <<"a", "1">>

----------------------------------------------------------------------------
(* C22 *)

\* what the claim gives as the outcome of Request for a response read in
\* full: the status, the body, and whether a destination was passed
C22_Outcome(e, resp, hasDst) ==
    IF resp.StatusCode < 200 \/ resp.StatusCode >= 300
    THEN e = parseErrorResponse(resp.StatusCode, resp.body)
    ELSE IF ~hasDst
    THEN e = NilErr
    ELSE IF resp.body.valid /\ resp.body.object
    THEN e = NilErr
    ELSE /\ e.type = "RequestError"
         /\ e.Operation = "parsing response"
         /\ e.Err # NilErr

\* C22: once a response has been read, Request returns the normalizer's
\* APIError for a status outside 200..299, leaving the destination
\* unpopulated; nil for a 2xx status and a nil destination, without
\* decoding; and for a 2xx status and a destination nil if and only if the
\* body decodes into it, else an error that wraps the parse failure.
C22_OutcomeFollowsStatusAndDestination ==
    \A p \in Procs :
        /\ (Done(p, "Request") /\ call[p].io = "response" /\ Endpoints(wire[p]) # {})
           => C22_Outcome(call[p].err, call[p].resp, call[p].hasResult)
        /\ ( /\ pc[p] \in {"done", "auth_time", "auth_key", "assert", "send", "nc_finish"}
             /\ call[p].io = "response"
             /\ Endpoints(wire[p]) = {} )
           => /\ C22_Outcome(call[p].authErr, call[p].resp, TRUE)
              /\ call[p].authErr # NilErr => call[p].key = ""

\* a 200 response whose body is not JSON, with a nil destination: success
C22_Witness ==
    \E p \in Procs :
        /\ Done(p, "Request")
        /\ ~call[p].hasResult
        /\ call[p].resp = Response(200, NotJSON)
        /\ call[p].io = "response"
        /\ call[p].err = NilErr

----------------------------------------------------------------------------
(* C23 *)

RECURSIVE Tag(_)
\* what a caller sees of an error without reading a message: its type, the
\* Operation of a RequestError, and the same of the errors it wraps
Tag(e) ==
    IF e.type = "GoNobitexError" THEN <<"GoNobitexError">> \o Tag(e.Err)
    ELSE IF e.type = "RequestError" THEN <<"RequestError", e.Operation>> \o Tag(e.Err)
    ELSE <<e.type>>

\* the error Request returns when the session has no key
EmptyKeyError ==
    GoNobitexError("authentication validation failed",
                   GoNobitexError("access token is empty", NilErr))

\* C23: the kind of a failure (configuration, transport, decoding,
\* authentication, API) can be told from the type and tags of the error
\* alone; so an error of Request that has the type and tags of the
\* empty-session-key error is an authentication failure: the client held
\* no key.
C23_KindToldByTypeAndTag ==
    \A p \in Procs :
        (Done(p, "Request") /\ Tag(call[p].err) = Tag(EmptyKeyError))
        => c.ApiKey = ""

----------------------------------------------------------------------------
(* C24 *)

\* C24: no operation on a constructed client changes Username, Password,
\* OtpSecret, Remember, UserAgent or BaseUrl; Authenticate called with
\* another username and password leaves the stored ones, and a refresh logs
\* in with the stored ones.
C24_ConfigurationIsNeverModified ==
    \A p \in Procs :
        call[p].op \in {"Request", "Authenticate"}
        => /\ c.Username = call[p].c0.Username /\ c.Username = "user"
           /\ c.Password = call[p].c0.Password /\ c.Password = "pass"
           /\ c.OtpSecret = call[p].c0.OtpSecret /\ c.OtpSecret = ValidSecret
           /\ c.Remember = call[p].c0.Remember
           /\ c.UserAgent = call[p].c0.UserAgent /\ c.UserAgent = "Bot/1.0"
           /\ c.BaseUrl = call[p].c0.BaseUrl /\ c.BaseUrl = BaseUrl
           /\ \A i \in Logins(wire[p]) :
                 call[p].refreshing
                 => /\ wire[p][i].login.username = "user"
                    /\ wire[p][i].login.password = "pass"

\* Authenticate("other", "word") has succeeded and stored its key
C24_Witness ==
    \E p \in Procs :
        /\ Done(p, "Authenticate")
        /\ call[p].Username = "other"
        /\ call[p].err = NilErr
        /\ c.ApiKey = "k1"
        /\ c.Username = "user"
        /\ c.Password = "pass"

\* a refresh logs in as the stored user after an earlier refresh failed
C24_WitnessRefresh ==
    \E p \in Procs :
        /\ pc[p] = "login_wait"
        /\ call[p].refreshing
        /\ call[p].failed > 0
        /\ wire[p][1].login.username = "user"

----------------------------------------------------------------------------
(* C25 *)

\* C25: when the client has a shared secret, the X-TOTP header of every
\* login, at construction, in a refresh and in a direct Authenticate, is
\* the code generated from the secret for that login, not a code supplied
\* by the caller nor one left from an earlier login.
C25_LoginCodeIsFresh ==
    \A p \in Procs : \A i \in Logins(wire[p]) :
        c.OtpSecret = ValidSecret
        => wire[p][i].hdr.XTOTP = GenerateOtpCode(c.OtpSecret, call[p].t0).code

----------------------------------------------------------------------------
(* C26 *)

\* the call of p is a Request that found the session stale and is
\* refreshing it
Refreshing(p) == call[p].op = "Request" /\ call[p].auth /\ call[p].refreshing

\* C26: in an authenticated call that finds the session stale and whose
\* login succeeds, the new one-time code is stored before the login is
\* sent, ApiKey and AuthTime are updated after the login and before the
\* endpoint request is dispatched, and the Authorization header of that
\* request carries the key of the refresh, not the stale one.
C26_RefreshOrder ==
    \A p \in Procs :
        Refreshing(p)
        => /\ c.OtpCode = GenerateOtpCode(c.OtpSecret, call[p].t0).code
           /\ \A i \in Logins(wire[p]) :
                 /\ i = 1
                 /\ wire[p][i].hdr.XTOTP = c.OtpCode
           /\ pc[p] \in {"auth", "login_wait", "auth_time", "auth_key"}
              => /\ Endpoints(wire[p]) = {}
                 /\ c.ApiKey = call[p].c0.ApiKey
           /\ pc[p] \in {"auth", "login_wait", "auth_time"}
              => c.AuthTime = call[p].c0.AuthTime
           /\ \A i \in Endpoints(wire[p]) :
                 /\ i = 2
                 /\ call[p].authErr = NilErr
                 /\ c.ApiKey = call[p].key
                 /\ c.AuthTime >= call[p].t0
                 /\ wire[p][i].hdr.Authorization = "Token " \o call[p].key
                 /\ wire[p][i].hdr.Authorization # "Token " \o call[p].c0.ApiKey

\* the endpoint request of a refreshed call is on the wire with the new key
C26_Witness ==
    \E p \in Procs :
        /\ Refreshing(p)
        /\ pc[p] = "ep_wait"
        /\ call[p].c0.ApiKey = "k0"
        /\ c.ApiKey = "k1"
        /\ Len(wire[p]) = 2
        /\ wire[p][1].hdr.XTOTP = <<"totp", call[p].t0>>
        /\ wire[p][2].hdr.Authorization = "Token k1"

----------------------------------------------------------------------------
(* C27 *)

\* the error that Request returned for the request last handed to the
\* network, or not built: the login's is the one Authenticate passes on
ErrorOfRequest(p) ==
    IF Logins(wire[p]) # {} /\ Endpoints(wire[p]) = {}
    THEN call[p].authErr
    ELSE call[p].err

\* the failure of the step "failure" came back as a RequestError that
\* carries its cause and the operation name
C27_Names(p, failure, operation) ==
    (pc[p] = "done" /\ call[p].io = failure)
    => /\ ErrorOfRequest(p).type = "RequestError"
       /\ ErrorOfRequest(p).Err.type = "cause"
       /\ ErrorOfRequest(p).Operation = operation

\* C27: a transport-level failure is returned as a RequestError with its
\* cause and the operation "creating request", "sending request" or
\* "reading response body" for the step that failed.
C27_TransportErrorsNameTheStep ==
    \A p \in Procs :
        /\ C27_Names(p, "create failed", "creating request")
        /\ C27_Names(p, "send failed", "sending request")
        /\ C27_Names(p, "read failed", "reading response body")

\* C27, amended: the operation of a failed body read is "reading response";
\* a failure to encode the parameters or the body has an operation name of
\* its own.
C27_TransportErrorsNameTheStepAsCoded ==
    \A p \in Procs :
        /\ C27_Names(p, "params failed", "preparing request parameters")
        /\ C27_Names(p, "body failed", "preparing request body")
        /\ C27_Names(p, "create failed", "creating request")
        /\ C27_Names(p, "send failed", "sending request")
        /\ C27_Names(p, "read failed", "reading response")

\* the body of an endpoint response could not be read
C27_Witness ==
    \E p \in Procs :
        /\ Done(p, "Request")
        /\ Endpoints(wire[p]) # {}
        /\ call[p].io = "read failed"
        /\ call[p].err.type = "RequestError"
        /\ call[p].err.Operation = "reading response"

----------------------------------------------------------------------------
(* C28 *)

\* C28: ApiKey and AuthTime change only by a login that succeeded: while a
\* call of Request or Authenticate has not had its login accepted, and when
\* it makes none (auth=false, a fresh session, a failure before or in the
\* login, an endpoint request that fails or succeeds), both are as they
\* were when the call began.
C28_OnlyLoginChangesSession ==
    \A p \in Procs :
        ( /\ call[p].op \in {"Request", "Authenticate"}
          /\ (c.ApiKey # call[p].c0.ApiKey \/ c.AuthTime # call[p].c0.AuthTime) )
        => /\ Logins(wire[p]) # {}
           /\ call[p].authErr = NilErr
           /\ pc[p] \in {"auth_key", "assert", "send", "ep_wait", "done"}
           /\ c.ApiKey # call[p].c0.ApiKey => (pc[p] # "auth_key" /\ c.ApiKey = call[p].key)

\* a refresh whose login was rejected: a new code, the old key and time
C28_Witness ==
    \E p \in Procs :
        /\ Done(p, "Request")
        /\ call[p].refreshing
        /\ call[p].authErr.type = "APIError"
        /\ c.OtpCode # call[p].c0.OtpCode
        /\ c.ApiKey = "k0"
        /\ c.ApiKey = call[p].c0.ApiKey
        /\ c.AuthTime = call[p].c0.AuthTime

----------------------------------------------------------------------------
(* C29 *)

\* the session of client cl is stale at time t
Stale(cl, t) == t - cl.AuthTime > Limit(cl.Remember)

\* C29: a refresh whose login fails leaves the session stale; after it,
\* an authenticated call (AutoRefresh on) that finds the session stale
\* sends exactly one login before anything else, a refresh whose login
\* succeeds leaves the session fresh, and a call that finds it fresh sends
\* no login.
C29_FailedRefreshDoesNotLock ==
    \A p \in Procs :
        (call[p].op = "Request" /\ call[p].auth /\ call[p].c0.AutoRefresh)
        => /\ (pc[p] = "done" /\ call[p].refreshing /\ call[p].authErr # NilErr)
              => /\ Stale(c, now)
                 /\ c.ApiKey = call[p].c0.ApiKey
                 /\ c.AuthTime = call[p].c0.AuthTime
           /\ ( /\ call[p].failed > 0
                /\ Stale(call[p].c0, call[p].t0)
                /\ pc[p] \notin {"har", "har_gen", "auth"} )
              => /\ Cardinality(Logins(wire[p])) = 1
                 /\ wire[p][1].to = "login"
           /\ (pc[p] = "done" /\ call[p].refreshing /\ call[p].authErr = NilErr)
              => ~Stale(c, now)
           /\ (call[p].failed > 0 /\ ~Stale(call[p].c0, call[p].t0))
              => Logins(wire[p]) = {}

\* the third call, after a failed refresh and a login that succeeded: the
\* endpoint request alone was sent
C29_Witness ==
    \E p \in Procs :
        /\ Done(p, "Request")
        /\ ncalls[p] = 3
        /\ call[p].failed = 1
        /\ call[p].c0.ApiKey = "k1"
        /\ call[p].c0.AuthTime = call[p].t0
        /\ Len(wire[p]) = 1
        /\ wire[p][1].to = "endpoint"
        /\ wire[p][1].hdr.Authorization = "Token k1"

\* the second call, after a failed refresh: its login is on the wire
C29_WitnessRetry ==
    \E p \in Procs :
        /\ call[p].op = "Request"
        /\ pc[p] = "login_wait"
        /\ call[p].failed = 1
        /\ ncalls[p] = 2
        /\ Len(wire[p]) = 1

====
